---- MODULE Spec2Model ----
(***************************************************************************)
(* Model of sdk::ThreadPool (sdk-demo/include/sdk/threading/thread_pool.h  *)
(* and sdk-demo/src/threading/thread_pool.cpp): the priority queue of      *)
(* tasks, the registry of task records, the worker loop, the condition     *)
(* variable shared by workers and waitForAll/waitFor callers, and the two  *)
(* shutdown paths.                                                         *)
(***************************************************************************)
EXTENDS Integers, Sequences, FiniteSets, TLC

\* ------------------------------------------------------------------ bounds
MaxTasks == 2        \* submissions accepted in one run
MaxWorkers == 2      \* worker slots (constructor argument and resize target)

\* --------------------------------------------------------------- constants
LOW == 0
NORMAL == 1
HIGH == 2
CRITICAL == 3
Priorities == {LOW, NORMAL, HIGH, CRITICAL}

\* What the user's closure does when it is invoked.
WorkKinds == {"ok", "throw_std", "throw_other"}

Waiters == {"caller"}     \* threads calling waitForAll / waitFor

VARIABLES
    infos,            \* every TaskInfo record ever made (shared_ptr targets), by index
    tasks_,           \* priority_queue<Task>: the indices of the queued records
    task_infos_,      \* registry: id -> record index, 0 when the id is absent
    workers_,         \* the worker slots held in the workers_ vector
    pc,               \* position of each worker thread
    cur,              \* the Task a worker holds between dequeue and completion
    stop_,
    force_stop_,
    active_threads_,
    stats_,           \* completed_tasks, failed_tasks, thread_count
    ctl,              \* position of the owner thread (shutdown, forceShutdown, resize)
    notifies,         \* submit calls that have pushed and not yet called notify_one
    wpc,              \* position of each waitForAll / waitFor caller
    ret,              \* the last value returned (or thrown) to a caller
    order,            \* record indices in the order their closures were invoked
    cancelledOk,      \* records for which cancelTask returned true
    pending_count,    \* the local of sdk_thread_pool_cancel_all_pending
    initialized_,     \* SDK::Impl::initialized_
    thread_pool_,     \* SDK::Impl::thread_pool_ holds a pool (TRUE) or is null
    sdk_pc,           \* position of the thread inside SDK::Impl::shutdown
    g_task_infos,     \* the C API's map of numeric task ids to records, 0 when absent
    g_next_task_id,   \* the C API's id counter
    cpc,              \* position and locals of the C API caller
    elapsed,          \* what the clock measures for a task: end_time - start_time
    queue_mutex_,     \* the thread that holds queue_mutex_, or NoThread
    stats_mutex_,     \* the thread that holds stats_mutex_, or NoThread
    lpc,              \* the operation each thread is in and its position in it
    queue_,           \* TaskQueue::queue_: the indices of the records it holds
    queue_stop_,      \* TaskQueue::stop_
    qpc,              \* position of each consumer inside waitAndPop
    popped            \* the records handed out by waitAndPop, in order

vars == <<infos, tasks_, task_infos_, workers_, pc, cur, stop_, force_stop_,
          active_threads_, stats_, ctl, notifies, wpc, ret, order,
          cancelledOk, pending_count, initialized_, thread_pool_, sdk_pc,
          g_task_infos, g_next_task_id, cpc, elapsed,
          queue_mutex_, stats_mutex_, lpc, queue_, queue_stop_, qpc, popped>>

sdkVars == <<initialized_, thread_pool_, sdk_pc>>
capiVars == <<g_task_infos, g_next_task_id, cpc>>
lockVars == <<queue_mutex_, stats_mutex_, lpc>>
tqVars == <<queue_, queue_stop_, qpc, popped>>
outerVars == <<sdkVars, capiVars, elapsed, lockVars, tqVars>>

Recs == 1..Len(infos)
Workers == DOMAIN pc      \* the worker slots of the run
Ids == DOMAIN task_infos_ \* the task id strings of the run

\* ---------------------------------------------------------- pure functions

\* Task::operator< with the submit_time comparison turned round (the later
\* submission wins a tie on priority).
TaskLessLaterFirst(a, b) ==
    IF infos[a].priority # infos[b].priority
    THEN infos[a].priority < infos[b].priority
    ELSE infos[a].submit_time < infos[b].submit_time

\* Task::operator< : lower priority is "less"; on equal priority the later
\* submit_time is "less".
TaskLess(a, b) ==
    IF infos[a].priority # infos[b].priority
    THEN infos[a].priority < infos[b].priority
    ELSE infos[a].submit_time > infos[b].submit_time

\* priority_queue::top(): an element that is not less than any other; the
\* heap may hand out any of several equivalent elements.
Top(q) == {r \in q : \A o \in q : ~TaskLess(r, o)}

\* std::packaged_task::operator(): the closure's exception is stored in the
\* shared state, it does not leave the call.
PackagedTaskThrows(work) == FALSE

\* A call that loses the closure's exception instead of storing it.
PackagedTaskFutureLosesException(work) == IF work = "ok" THEN "value" ELSE "none"

\* The shared state of the packaged_task after the call.
PackagedTaskFuture(work) == IF work = "ok" THEN "value" ELSE "exception"

\* The try/catch around the call (thread_pool.h 222-231, thread_pool.cpp 72-81).
CallOutcome(work) ==
    IF ~PackagedTaskThrows(work)
    THEN [status |-> "COMPLETED", error_message |-> ""]
    ELSE IF work = "throw_std"
         THEN [status |-> "FAILED", error_message |-> "what"]
         ELSE [status |-> "FAILED", error_message |-> "Unknown exception"]

\* A dequeue that reads top() and leaves the element in the queue.
PoppedStays(q, r) == q

\* tasks_.pop() after task = tasks_.top(): the element leaves the queue.
Popped(q, r) == q \ {r}

\* A dequeue that does not count the worker as active.
FetchAddNone(a) == a

\* active_threads_.fetch_add(1)
FetchAdd(a) == a + 1

\* The wait predicate of the worker loop.
WorkerPred == tasks_ # {} \/ stop_ \/ force_stop_

\* The worker's stop test after the wait.
WorkerMustStop == (stop_ /\ tasks_ = {}) \/ force_stop_

\* A wait predicate that looks at the queue only.
IdlePredQueueOnly == tasks_ = {}

\* The wait predicate of waitForAll and waitFor.
IdlePred == tasks_ = {} /\ active_threads_ = 0

\* A timed wait that reports every timeout as a failure.
TimedOutResultFalse == FALSE

\* What wait_for(lock, timeout, pred) returns when the timeout elapses: the
\* value of pred at that instant.
TimedOutResult == IdlePred

\* submit's test of the shutdown flags.
SubmitRefused == stop_

\* Threads blocked in condition_.wait.
WaitingWorkers == {w \in Workers : pc[w] = "waiting"}
WaitingWaiters == {x \in Waiters : wpc[x] \in {"wfa_waiting", "wf_waiting"}}

WakeWaiter(p) == IF p = "wfa_waiting" THEN "wfa_woken"
                 ELSE IF p = "wf_waiting" THEN "wf_woken" ELSE p

\* system_clock::now() read by submit: not before the previous submission's
\* instant, and equal to it when the clock has not advanced in between.
LastInstant == IF infos = <<>> THEN 0 ELSE infos[Len(infos)].submit_time
Now == IF infos = <<>> THEN {1} ELSE {LastInstant, LastInstant + 1}

\* ------------------------------------------------------------------- Init
InitThreadCounts == 1..MaxWorkers

\* The clock's tick is half a millisecond: duration_cast<milliseconds>
\* truncates a measured time to whole milliseconds.
TicksPerMs == 2

\* The statics of the C API at program start (thread_pool.cpp 268-270), no
\* C API call in progress.
CapiStart ==
    /\ g_task_infos = [i \in 1..MaxTasks |-> 0]
    /\ g_next_task_id = 1
    /\ cpc = [at |-> "idle", task_id |-> 0, timeout_ms |-> 0]

\* The SDK facade as constructed: not initialized, no pool.
SdkStart ==
    /\ initialized_ = FALSE
    /\ thread_pool_ = FALSE
    /\ sdk_pc = "idle"

\* A pool used on its own, as the tests do: the facade is not initialized,
\* and every task is measured at one millisecond.
\* The threads whose mutex operations are followed: two callers of the
\* pool's methods and one worker thread.
LockCallers == {"caller1", "caller2"}
LockThreads == LockCallers \cup {"worker"}
NoThread == "none"

\* No mutex is held and no thread is inside an operation.
LocksFree ==
    /\ queue_mutex_ = NoThread
    /\ stats_mutex_ = NoThread
    /\ lpc = [t \in LockThreads |-> [op |-> "idle", at |-> 0]]

\* TaskQueue(): an empty queue that is not stopped; no consumer is inside
\* waitAndPop.
QueueConsumers == {"consumer1", "consumer2"}

TaskQueueStart ==
    /\ queue_ = {}
    /\ queue_stop_ = FALSE
    /\ qpc = [c \in QueueConsumers |-> "idle"]
    /\ popped = <<>>

Standalone ==
    /\ SdkStart
    /\ CapiStart
    /\ elapsed = TicksPerMs
    /\ LocksFree
    /\ TaskQueueStart

\* The pool after ThreadPool(n): n worker threads at the top of their loop.
Pool(n) ==
    /\ infos = <<>>
    /\ tasks_ = {}
    /\ task_infos_ = [i \in 1..MaxTasks |-> 0]
    /\ workers_ = 1..n
    /\ pc = [w \in 1..MaxWorkers |-> IF w <= n THEN "check" ELSE "none"]
    /\ stats_ = [thread_count |-> n, completed_tasks |-> 0, failed_tasks |-> 0,
                 average_task_duration_ms |-> [num |-> 0, den |-> 1]]
    /\ cur = [w \in 1..MaxWorkers |-> 0]
    /\ stop_ = FALSE
    /\ force_stop_ = FALSE
    /\ active_threads_ = 0
    /\ ctl = "idle"
    /\ notifies = 0
    /\ wpc = [x \in Waiters |-> "idle"]
    /\ ret = [op |-> "none", arg |-> 0, val |-> "none"]
    /\ order = <<>>
    /\ cancelledOk = {}
    /\ pending_count = 0

\* The state after ThreadPool(n) in a program that does not use the facade.
Constructed(n) == Pool(n) /\ Standalone

Init == \E n \in InitThreadCounts : Constructed(n)

\* std::thread::hardware_concurrency(): the number of hardware threads, or 0
\* when it cannot be computed.
HardwareConcurrency == 0..(MaxWorkers \div 2)

\* SDK::Impl::initializeThreadPool: the thread count handed to ThreadPool.
InitializeThreadPoolCount(thread_pool_size, hc, enable_hyperthreading) ==
    IF thread_pool_size = 0
    THEN IF enable_hyperthreading THEN hc * 2 ELSE hc
    ELSE thread_pool_size

\* A pool constructed with any thread count, directly or by the SDK.
InitCtor ==
    \/ \E n \in 0..MaxWorkers : Constructed(n)
    \/ \E size \in 0..MaxWorkers, hc \in HardwareConcurrency, ht \in BOOLEAN :
          Constructed(InitializeThreadPoolCount(size, hc, ht))

poolVars == <<infos, tasks_, task_infos_>>
threadVars == <<workers_, pc, cur, active_threads_, stats_>>
flagVars == <<stop_, force_stop_>>

\* ---------------------------------------------------------------- submit
\* submit(task_id, priority, f): the record is made, pushed and registered
\* under queue_mutex_; notify_one follows after the unlock.  The caller's
\* own variables are left to the caller.
SubmitTask(id, prio, work, t) ==
    /\ ~SubmitRefused
    /\ LET r == Len(infos) + 1 IN
       /\ infos' = Append(infos, [id |-> id, priority |-> prio, status |-> "PENDING",
                                  submit_time |-> t, error_message |-> "",
                                  work |-> work, future |-> "none",
                                  start_time |-> 0, end_time |-> 0])
       /\ tasks_' = tasks_ \cup {r}
       /\ task_infos_' = [task_infos_ EXCEPT ![id] = r]
    /\ notifies' = notifies + 1
    /\ ret' = [op |-> "submit", arg |-> id, val |-> "future"]
    /\ UNCHANGED <<threadVars, flagVars, ctl, wpc, order, cancelledOk, pending_count>>

\* submit throws std::runtime_error("ThreadPool is shutting down").
SubmitThrows(id) ==
    /\ SubmitRefused
    /\ ret' = [op |-> "submit", arg |-> id, val |-> "shutting_down"]
    /\ UNCHANGED <<poolVars, threadVars, flagVars, ctl, notifies, wpc, order, cancelledOk, pending_count, outerVars>>

\* condition_.notify_one() at the end of submit: wakes one thread blocked on
\* condition_, a worker or a waitForAll/waitFor caller; nothing if none waits.
NotifyOne ==
    /\ notifies > 0
    /\ notifies' = notifies - 1
    /\ \/ /\ WaitingWorkers = {} /\ WaitingWaiters = {}
          /\ UNCHANGED <<pc, wpc>>
       \/ \E w \in WaitingWorkers :
             /\ pc' = [pc EXCEPT ![w] = "check"]
             /\ UNCHANGED wpc
       \/ \E x \in WaitingWaiters :
             /\ wpc' = [wpc EXCEPT ![x] = WakeWaiter(wpc[x])]
             /\ UNCHANGED pc
    /\ UNCHANGED <<poolVars, workers_, cur, active_threads_, stats_, flagVars, ctl,
                   ret, order, cancelledOk, pending_count, outerVars>>

\* condition_.notify_all(): every thread blocked on condition_ is woken.
NotifyAllPc == [w \in Workers |-> IF pc[w] = "waiting" THEN "check" ELSE pc[w]]
NotifyAllWpc == [x \in Waiters |-> WakeWaiter(wpc[x])]

\* A condition variable may wake a blocked thread without any notification.
SpuriousWake ==
    /\ \/ \E w \in WaitingWorkers :
             /\ pc' = [pc EXCEPT ![w] = "check"]
             /\ UNCHANGED wpc
       \/ \E x \in WaitingWaiters :
             /\ wpc' = [wpc EXCEPT ![x] = WakeWaiter(wpc[x])]
             /\ UNCHANGED pc
    /\ UNCHANGED <<poolVars, workers_, cur, active_threads_, stats_, flagVars, ctl,
                   notifies, ret, order, cancelledOk, pending_count, outerVars>>

\* ------------------------------------------------------------ workerThread
\* Lines 44-65, one critical section: the wait predicate, the stop test and
\* the dequeue.  A woken worker re-enters here.
WorkerCheck(w) ==
    /\ pc[w] = "check"
    /\ IF ~WorkerPred
       THEN /\ pc' = [pc EXCEPT ![w] = "waiting"]
            /\ UNCHANGED <<tasks_, cur, active_threads_>>
       ELSE IF WorkerMustStop
       THEN /\ pc' = [pc EXCEPT ![w] = "exited"]
            /\ UNCHANGED <<tasks_, cur, active_threads_>>
       ELSE IF tasks_ # {}
       THEN \E r \in Top(tasks_) :
               /\ cur' = [cur EXCEPT ![w] = r]
               /\ tasks_' = Popped(tasks_, r)
               /\ active_threads_' = FetchAdd(active_threads_)
               /\ pc' = [pc EXCEPT ![w] = "start"]
       ELSE UNCHANGED <<pc, tasks_, cur, active_threads_>>
    /\ UNCHANGED <<infos, task_infos_, workers_, stats_, flagVars, ctl, notifies, wpc,
                   ret, order, cancelledOk, pending_count, outerVars>>

\* Lines 68-70 (and thread_pool.h 219-220): the record is marked RUNNING,
\* whatever its status was.
StatusAtStart(old) == "RUNNING"

\* The instants of a record are counted from its own start: start_time is
\* tick 1, and 0 is the time_point a record is constructed with.
StartWrites(info) == [info EXCEPT !.status = StatusAtStart(@), !.start_time = 1]

WorkerStart(w) ==
    /\ pc[w] = "start"
    /\ infos' = [infos EXCEPT ![cur[w]] = StartWrites(@)]
    /\ pc' = [pc EXCEPT ![w] = "call"]
    /\ UNCHANGED <<tasks_, task_infos_, workers_, cur, active_threads_, stats_, flagVars,
                   ctl, notifies, wpc, ret, order, cancelledOk, pending_count, outerVars>>

\* task.function() down to (*task)(): the user's closure runs and the
\* packaged_task makes the future ready with the value or the exception.
WorkerCall(w) ==
    /\ pc[w] = "call"
    /\ infos' = [infos EXCEPT ![cur[w]].future = PackagedTaskFuture(infos[cur[w]].work)]
    /\ order' = Append(order, cur[w])
    /\ pc' = [pc EXCEPT ![w] = "post"]
    /\ UNCHANGED <<tasks_, task_infos_, workers_, cur, active_threads_, stats_, flagVars,
                   ctl, notifies, wpc, ret, cancelledOk, pending_count, outerVars>>

\* thread_pool.h 224-233 and thread_pool.cpp 74-83: the status after the call
\* and end_time, the clock having advanced by elapsed since start_time.
PostWrites(info) ==
    LET out == CallOutcome(info.work) IN
    [info EXCEPT !.status = out.status,
                 !.error_message = out.error_message,
                 !.end_time = info.start_time + elapsed]

WorkerPost(w) ==
    /\ pc[w] = "post"
    /\ infos' = [infos EXCEPT ![cur[w]] = PostWrites(@)]
    /\ pc' = [pc EXCEPT ![w] = "stats"]
    /\ UNCHANGED <<tasks_, task_infos_, workers_, cur, active_threads_, stats_, flagVars,
                   ctl, notifies, wpc, ret, order, cancelledOk, pending_count, outerVars>>

\* average_task_duration_ms is a double; the model keeps the exact quotient
\* as a fraction in lowest terms, so that equal values are equal states.
RECURSIVE Gcd(_, _)
Gcd(a, b) == IF b = 0 THEN a ELSE Gcd(b, a % b)
Ratio(n, d) == LET g == Gcd(n, d) IN [num |-> n \div g, den |-> d \div g]
Times(q, k) == Ratio(q.num * k, q.den)
Plus(q, k) == Ratio(q.num + k * q.den, q.den)
Over(q, k) == Ratio(q.num, q.den * k)

\* duration_cast<milliseconds>(end_time - start_time).count()
DurationMs(info) == (info.end_time - info.start_time) \div TicksPerMs

\* updateStats(info): the counter of the record's status, then the running
\* mean, recomputed only if end_time > start_time.
UpdateCounters(s, status) ==
    IF status = "COMPLETED" THEN [s EXCEPT !.completed_tasks = @ + 1]
    ELSE IF status = "FAILED" THEN [s EXCEPT !.failed_tasks = @ + 1]
    ELSE s

UpdateStats(s, info) ==
    LET c == UpdateCounters(s, info.status)
        n == c.completed_tasks + c.failed_tasks
    IN  IF info.end_time > info.start_time
        THEN LET duration == DurationMs(info)
                 total_duration == Times(c.average_task_duration_ms, n - 1)
             IN  [c EXCEPT !.average_task_duration_ms =
                               Over(Plus(total_duration, duration), n)]
        ELSE c

WorkerStats(w) ==
    /\ pc[w] = "stats"
    /\ stats_' = UpdateStats(stats_, infos[cur[w]])
    /\ pc' = [pc EXCEPT ![w] = "dec"]
    /\ UNCHANGED <<poolVars, workers_, cur, active_threads_, flagVars, ctl, notifies, wpc,
                   ret, order, cancelledOk, pending_count, outerVars>>

\* active_threads_.fetch_sub(1), then the next iteration of the loop.
WorkerDec(w) ==
    /\ pc[w] = "dec"
    /\ active_threads_' = active_threads_ - 1
    /\ cur' = [cur EXCEPT ![w] = 0]
    /\ pc' = [pc EXCEPT ![w] = "check"]
    /\ UNCHANGED <<poolVars, workers_, stats_, flagVars, ctl, notifies, wpc, ret, order,
                   cancelledOk, pending_count, outerVars>>

WorkerStep(w) == \/ WorkerCheck(w) \/ WorkerStart(w) \/ WorkerCall(w)
                 \/ WorkerPost(w) \/ WorkerStats(w) \/ WorkerDec(w)

\* -------------------------------------------------------------- cancelTask
\* A test that also lets a RUNNING record be cancelled.
CanCancelRunning(id) ==
    task_infos_[id] # 0 /\ infos[task_infos_[id]].status \in {"PENDING", "RUNNING"}

\* The test of cancelTask: the id is registered and its record is PENDING.
CanCancel(id) == task_infos_[id] # 0 /\ infos[task_infos_[id]].status = "PENDING"

CancelTask(id) ==
    /\ IF CanCancel(id)
       THEN /\ infos' = [infos EXCEPT ![task_infos_[id]].status = "CANCELLED"]
            /\ cancelledOk' = cancelledOk \cup {task_infos_[id]}
            /\ ret' = [op |-> "cancelTask", arg |-> id, val |-> TRUE]
       ELSE /\ ret' = [op |-> "cancelTask", arg |-> id, val |-> FALSE]
            /\ UNCHANGED <<infos, cancelledOk>>
    /\ UNCHANGED <<tasks_, task_infos_, threadVars, flagVars, ctl, notifies, wpc, order,
                   pending_count, outerVars>>

\* The records after the loop of cancelPendingTasks(): every queued Task is
\* popped, its record marked CANCELLED, and the Task destroyed with its
\* packaged_task, whose future is left with a broken promise.
DrainedInfos ==
    [r \in Recs |-> IF r \in tasks_
                    THEN [infos[r] EXCEPT !.status = "CANCELLED",
                                          !.future = "broken_promise"]
                    ELSE infos[r]]

\* cancelPendingTasks(): the whole queue is drained under queue_mutex_.
CancelPendingTasks ==
    /\ infos' = DrainedInfos
    /\ tasks_' = {}
    /\ ret' = [op |-> "cancelPendingTasks", arg |-> 0, val |-> "void"]
    /\ UNCHANGED <<task_infos_, threadVars, flagVars, ctl, notifies, wpc, order, cancelledOk, pending_count, outerVars>>

\* sdk_thread_pool_cancel_all_pending(), line 668: pendingTasks() is read
\* into the local pending_count, in a critical section of its own.
CancelAllCount ==
    /\ ctl = "idle"
    /\ pending_count' = Cardinality(tasks_)
    /\ ctl' = "cap_cancel"
    /\ UNCHANGED <<poolVars, threadVars, flagVars, notifies, wpc, ret, order, cancelledOk, outerVars>>

\* Lines 669-670: cancelPendingTasks() is called, then the count read
\* before it is returned.
CancelAllCancel ==
    /\ ctl = "cap_cancel"
    /\ infos' = DrainedInfos
    /\ tasks_' = {}
    /\ ret' = [op |-> "cancel_all_pending", arg |-> 0, val |-> pending_count]
    /\ pending_count' = 0
    /\ ctl' = "idle"
    /\ UNCHANGED <<task_infos_, threadVars, flagVars, notifies, wpc, order, cancelledOk, outerVars>>

\* getStats(): a copy of stats_ with active_threads and pending_tasks filled
\* in, taken under stats_mutex_ and queue_mutex_.
GetStats ==
    /\ ret' = [op |-> "getStats", arg |-> 0,
               val |-> [thread_count |-> stats_.thread_count,
                        active_threads |-> active_threads_,
                        pending_tasks |-> Cardinality(tasks_),
                        completed_tasks |-> stats_.completed_tasks,
                        failed_tasks |-> stats_.failed_tasks,
                        average_task_duration_ms |-> stats_.average_task_duration_ms]]
    /\ UNCHANGED <<poolVars, threadVars, flagVars, ctl, notifies, wpc, order, cancelledOk,
                   pending_count, outerVars>>

\* getTaskInfos(): a copy of every record the registry points to.
GetTaskInfosResult == {task_infos_[id] : id \in {i \in Ids : task_infos_[i] # 0}}

\* A copy taken while another thread writes the record: each field read is
\* the value before or the value after the writes.
TornCopies(old, new) ==
    {[old EXCEPT !.status = s, !.start_time = st, !.end_time = et, !.error_message = m] :
        s \in {old.status, new.status}, st \in {old.start_time, new.start_time},
        et \in {old.end_time, new.end_time}, m \in {old.error_message, new.error_message}}

\* The copies getTaskInfos can make of record r.  The copy is made under
\* queue_mutex_, but the worker holding r writes its fields with no mutex
\* held (lines 69-70 and 74-83): a copy concurrent with these writes is a
\* data race.
CopiesOf(r) ==
    IF \E w \in Workers : cur[w] = r /\ pc[w] = "start"
    THEN TornCopies(infos[r], StartWrites(infos[r]))
    ELSE IF \E w \in Workers : cur[w] = r /\ pc[w] = "post"
    THEN TornCopies(infos[r], PostWrites(infos[r]))
    ELSE {infos[r]}

GetTaskInfos ==
    /\ \E v \in [GetTaskInfosResult -> UNION {CopiesOf(r) : r \in GetTaskInfosResult}] :
          /\ \A r \in GetTaskInfosResult : v[r] \in CopiesOf(r)
          /\ ret' = [op |-> "getTaskInfos", arg |-> 0, val |-> v]
    /\ UNCHANGED <<poolVars, threadVars, flagVars, ctl, notifies, wpc, order, cancelledOk,
                   pending_count, outerVars>>

\* ---------------------------------------------------- waitForAll / waitFor
\* condition_.wait(lock, pred): returns at once when pred holds, else blocks.
WaitForAllCall(x) ==
    /\ wpc[x] = "idle"
    /\ IF IdlePred
       THEN /\ ret' = [op |-> "waitForAll", arg |-> 0, val |-> "void"]
            /\ UNCHANGED wpc
       ELSE /\ wpc' = [wpc EXCEPT ![x] = "wfa_waiting"]
            /\ UNCHANGED ret
    /\ UNCHANGED <<poolVars, threadVars, flagVars, ctl, notifies, order, cancelledOk, pending_count, outerVars>>

\* A woken waitForAll caller tests pred again under the mutex.
WaitForAllWake(x) ==
    /\ wpc[x] = "wfa_woken"
    /\ IF IdlePred
       THEN /\ ret' = [op |-> "waitForAll", arg |-> 0, val |-> "void"]
            /\ wpc' = [wpc EXCEPT ![x] = "idle"]
       ELSE /\ wpc' = [wpc EXCEPT ![x] = "wfa_waiting"]
            /\ UNCHANGED ret
    /\ UNCHANGED <<poolVars, threadVars, flagVars, ctl, notifies, order, cancelledOk, pending_count, outerVars>>

\* condition_.wait_for(lock, timeout, pred).
WaitForCall(x) ==
    /\ wpc[x] = "idle"
    /\ IF IdlePred
       THEN /\ ret' = [op |-> "waitFor", arg |-> 0, val |-> TRUE]
            /\ UNCHANGED wpc
       ELSE /\ wpc' = [wpc EXCEPT ![x] = "wf_waiting"]
            /\ UNCHANGED ret
    /\ UNCHANGED <<poolVars, threadVars, flagVars, ctl, notifies, order, cancelledOk, pending_count, outerVars>>

WaitForWake(x) ==
    /\ wpc[x] = "wf_woken"
    /\ IF IdlePred
       THEN /\ ret' = [op |-> "waitFor", arg |-> 0, val |-> TRUE]
            /\ wpc' = [wpc EXCEPT ![x] = "idle"]
       ELSE /\ wpc' = [wpc EXCEPT ![x] = "wf_waiting"]
            /\ UNCHANGED ret
    /\ UNCHANGED <<poolVars, threadVars, flagVars, ctl, notifies, order, cancelledOk, pending_count, outerVars>>

\* The timeout elapses: wait_for returns pred as it is then.
WaitForTimeout(x) ==
    /\ wpc[x] \in {"wf_waiting", "wf_woken"}
    /\ ret' = [op |-> "waitFor", arg |-> 0, val |-> TimedOutResult]
    /\ wpc' = [wpc EXCEPT ![x] = "idle"]
    /\ UNCHANGED <<poolVars, threadVars, flagVars, ctl, notifies, order, cancelledOk, pending_count, outerVars>>

\* ------------------------------------------- shutdown, forceShutdown, resize
\* shutdown(), lines 228-231: stop_ is set under queue_mutex_.
ShutdownFlag ==
    /\ ctl = "idle"
    /\ stop_' = TRUE
    /\ ctl' = "sd_notify"
    /\ UNCHANGED <<poolVars, threadVars, force_stop_, notifies, wpc, ret, order, cancelledOk, pending_count, outerVars>>

\* forceShutdown(), lines 245-248: force_stop_ is set; the queue, the
\* records and stop_ are not touched.
ForceShutdownFlag ==
    /\ ctl = "idle"
    /\ force_stop_' = TRUE
    /\ ctl' = "fs_notify"
    /\ UNCHANGED <<poolVars, threadVars, stop_, notifies, wpc, ret, order, cancelledOk, pending_count, outerVars>>

\* condition_.notify_all() of either shutdown.
ShutdownNotify ==
    /\ ctl \in {"sd_notify", "fs_notify"}
    /\ pc' = NotifyAllPc
    /\ wpc' = NotifyAllWpc
    /\ ctl' = IF ctl = "sd_notify" THEN "sd_join" ELSE "fs_join"
    /\ UNCHANGED <<poolVars, workers_, cur, active_threads_, stats_, flagVars, notifies,
                   ret, order, cancelledOk, pending_count, outerVars>>

\* The join loop and workers_.clear(): returns when every worker thread of
\* workers_ has left workerThread.
ShutdownJoin ==
    /\ ctl \in {"sd_join", "fs_join"}
    /\ \A w \in workers_ : pc[w] = "exited"
    /\ workers_' = {}
    /\ pc' = [w \in Workers |-> IF w \in workers_ THEN "none" ELSE pc[w]]
    /\ ret' = [op |-> IF ctl = "sd_join" THEN "shutdown" ELSE "forceShutdown",
               arg |-> 0, val |-> "void"]
    /\ ctl' = "idle"
    /\ UNCHANGED <<poolVars, cur, active_threads_, stats_, flagVars, notifies, wpc,
                   order, cancelledOk, pending_count, outerVars>>

\* A resize that starts no thread.
ResizedWorkersNoGrow(n) == workers_

\* resize(new_size): grows by starting threads, never shrinks.
ResizedWorkers(n) == IF n > Cardinality(workers_) THEN 1..n ELSE workers_

Resize(n) ==
    /\ ctl = "idle"
    /\ workers_ = 1..Cardinality(workers_)
    /\ workers_' = ResizedWorkers(n)
    /\ pc' = [w \in Workers |-> IF w \in workers_' \ workers_ THEN "check" ELSE pc[w]]
    /\ stats_' = IF n = Cardinality(workers_) THEN stats_
                 ELSE [stats_ EXCEPT !.thread_count = Cardinality(workers_')]
    /\ ret' = [op |-> "resize", arg |-> n, val |-> "void"]
    /\ UNCHANGED <<poolVars, cur, active_threads_, flagVars, ctl, notifies, wpc, order,
                   cancelledOk, pending_count, outerVars>>

\* -------------------------------------------------------------- TaskQueue
\* The order of the Tasks in TaskQueue::queue_: higher priority first, and
\* the earlier submit_time first among equal priorities.
QueueTaskLess(a, b) == TaskLess(a, b)

\* queue_.top()
QueueTop(q) == {r \in q : \A o \in q : ~QueueTaskLess(r, o)}

\* The wait predicate of waitAndPop.
QueuePred == queue_ # {} \/ queue_stop_

\* A stop test that looks at stop_ only.
QueueMustStopAlways == queue_stop_

\* The test after the wait: waitAndPop returns false.
QueueMustStop == queue_stop_ /\ queue_ = {}

\* A removal that takes every task out of the queue.
RemovedWithIdAll(q, id) == q

\* The tasks removeTasksWithId(id) does not push into new_queue.
RemovedWithId(q, id) == {r \in q : infos[r].id = id}

QueueWaiting == {c \in QueueConsumers : qpc[c] = "waiting"}

\* push(task), one critical section of mutex_: the Task enters queue_ and
\* notify_one wakes one consumer blocked in waitAndPop, if there is one.
\* push does not look at stop_.
QueuePush(id, prio, t) ==
    /\ LET r == Len(infos) + 1 IN
       /\ infos' = Append(infos, [id |-> id, priority |-> prio, status |-> "PENDING",
                                  submit_time |-> t, error_message |-> "",
                                  work |-> "ok", future |-> "none",
                                  start_time |-> 0, end_time |-> 0])
       /\ queue_' = queue_ \cup {r}
    /\ IF QueueWaiting = {}
       THEN UNCHANGED qpc
       ELSE \E c \in QueueWaiting : qpc' = [qpc EXCEPT ![c] = "woken"]
    /\ ret' = [op |-> "push", arg |-> id, val |-> "void"]
    /\ UNCHANGED <<tasks_, task_infos_, threadVars, flagVars, ctl, notifies, wpc, order,
                   cancelledOk, pending_count, sdkVars, capiVars, elapsed, lockVars,
                   queue_stop_, popped>>

\* waitAndPop(task): entered, or resumed after a wake-up, with mutex_ held.
\* It blocks while the predicate is false; otherwise it returns false when
\* the queue is stopped and empty, and else pops the top and returns true.
WaitAndPop(c) ==
    /\ qpc[c] \in {"idle", "woken"}
    /\ IF ~QueuePred
       THEN /\ qpc' = [qpc EXCEPT ![c] = "waiting"]
            /\ UNCHANGED <<queue_, popped, ret>>
       ELSE IF QueueMustStop
       THEN /\ qpc' = [qpc EXCEPT ![c] = "idle"]
            /\ ret' = [op |-> "waitAndPop", arg |-> c, val |-> FALSE]
            /\ UNCHANGED <<queue_, popped>>
       ELSE \E r \in QueueTop(queue_) :
               /\ queue_' = queue_ \ {r}
               /\ popped' = Append(popped, r)
               /\ qpc' = [qpc EXCEPT ![c] = "idle"]
               /\ ret' = [op |-> "waitAndPop", arg |-> c, val |-> TRUE]
    /\ UNCHANGED <<poolVars, threadVars, flagVars, ctl, notifies, wpc, order, cancelledOk,
                   pending_count, sdkVars, capiVars, elapsed, lockVars, queue_stop_>>

\* stop(): stop_ is set and notify_all wakes every blocked consumer.
QueueStop ==
    /\ queue_stop_' = TRUE
    /\ qpc' = [c \in QueueConsumers |-> IF qpc[c] = "waiting" THEN "woken" ELSE qpc[c]]
    /\ ret' = [op |-> "stop", arg |-> 0, val |-> "void"]
    /\ UNCHANGED <<poolVars, threadVars, flagVars, ctl, notifies, wpc, order, cancelledOk,
                   pending_count, sdkVars, capiVars, elapsed, lockVars, queue_, popped>>

\* removeTasksWithId(task_id): the queue is rebuilt without the Tasks whose
\* record has that id, and these records are marked CANCELLED.
RemoveTasksWithId(id) ==
    /\ LET gone == RemovedWithId(queue_, id) IN
       /\ queue_' = queue_ \ gone
       /\ infos' = [r \in Recs |-> IF r \in gone
                                    THEN [infos[r] EXCEPT !.status = "CANCELLED"]
                                    ELSE infos[r]]
    /\ ret' = [op |-> "removeTasksWithId", arg |-> id, val |-> "void"]
    /\ UNCHANGED <<tasks_, task_infos_, threadVars, flagVars, ctl, notifies, wpc, order,
                   cancelledOk, pending_count, sdkVars, capiVars, elapsed, lockVars,
                   queue_stop_, qpc, popped>>

\* ----------------------------------------------------------- the mutexes
\* What each operation does to queue_mutex_ and stats_mutex_, in program
\* order.  A condition_.wait releases queue_mutex_ like an unlock.
Acquire(m) == [do |-> "lock", mutex |-> m]
Release(m) == [do |-> "unlock", mutex |-> m]
UserCode == [do |-> "call", mutex |-> "none"]

SubmitLocks == <<Acquire("queue_mutex_"), Release("queue_mutex_")>>
CancelTaskLocks == <<Acquire("queue_mutex_"), Release("queue_mutex_")>>
CancelPendingTasksLocks == <<Acquire("queue_mutex_"), Release("queue_mutex_")>>
GetTaskInfosLocks == <<Acquire("queue_mutex_"), Release("queue_mutex_")>>
PendingTasksLocks == <<Acquire("queue_mutex_"), Release("queue_mutex_")>>
ResizeLocks == <<Acquire("stats_mutex_"), Release("stats_mutex_")>>
GetStatsLocks == <<Acquire("stats_mutex_"), Acquire("queue_mutex_"),
                   Release("queue_mutex_"), Release("stats_mutex_")>>

\* A worker that calls the task and updateStats inside its critical section.
WorkerThreadLocksNested ==
    <<Acquire("queue_mutex_"), UserCode, Acquire("stats_mutex_"),
      Release("stats_mutex_"), Release("queue_mutex_")>>

\* One iteration of workerThread: the dequeue under queue_mutex_, the task
\* with no mutex held, updateStats under stats_mutex_.
WorkerThreadLocks ==
    <<Acquire("queue_mutex_"), Release("queue_mutex_"), UserCode,
      Acquire("stats_mutex_"), Release("stats_mutex_")>>

CallerOps == {"submit", "cancelTask", "cancelPendingTasks", "getTaskInfos",
              "pendingTasks", "resize", "getStats"}

LockSteps(op) ==
    CASE op = "submit" -> SubmitLocks
      [] op = "cancelTask" -> CancelTaskLocks
      [] op = "cancelPendingTasks" -> CancelPendingTasksLocks
      [] op = "getTaskInfos" -> GetTaskInfosLocks
      [] op = "pendingTasks" -> PendingTasksLocks
      [] op = "resize" -> ResizeLocks
      [] op = "getStats" -> GetStatsLocks
      [] op = "workerThread" -> WorkerThreadLocks

Inside(t) == lpc[t].op # "idle"
NextLockStep(t) == LockSteps(lpc[t].op)[lpc[t].at]
Holder(m) == IF m = "queue_mutex_" THEN queue_mutex_ ELSE stats_mutex_

\* A thread enters an operation.
EnterOp(t, op) ==
    /\ ~Inside(t)
    /\ lpc' = [lpc EXCEPT ![t] = [op |-> op, at |-> 1]]
    /\ UNCHANGED <<poolVars, threadVars, flagVars, ctl, notifies, wpc, ret, order,
                   cancelledOk, pending_count, sdkVars, capiVars, elapsed,
                   queue_mutex_, stats_mutex_, tqVars>>

\* The thread's next step: std::mutex::lock blocks while the mutex is held.
LockStep(t) ==
    /\ Inside(t)
    /\ LET step == NextLockStep(t)
           after == IF step.do = "lock" THEN t ELSE NoThread
       IN  /\ step.do = "lock" => Holder(step.mutex) = NoThread
           /\ queue_mutex_' = IF step.mutex = "queue_mutex_" THEN after ELSE queue_mutex_
           /\ stats_mutex_' = IF step.mutex = "stats_mutex_" THEN after ELSE stats_mutex_
    /\ lpc' = [lpc EXCEPT ![t] = IF lpc[t].at = Len(LockSteps(lpc[t].op))
                                 THEN [op |-> "idle", at |-> 0]
                                 ELSE [@ EXCEPT !.at = @ + 1]]
    /\ UNCHANGED <<poolVars, threadVars, flagVars, ctl, notifies, wpc, ret, order,
                   cancelledOk, pending_count, sdkVars, capiVars, elapsed, tqVars>>

\* ------------------------------------------------------------ SDK facade
\* How the dependencies of SDK::Impl::initialize turn out: all succeed, the
\* logging set-up fails (before the pool is made), or the HTTP client fails
\* (after it).
InitOutcomes == {"ok", "logging_fails", "http_fails"}

\* The test at the top of SDK::Impl::initialize.
AlreadyInitialized == initialized_

\* std::make_shared<ThreadPool>(n) assigned to thread_pool_: the pool
\* variables become those of a pool just constructed.
FreshPool(n) ==
    /\ infos' = <<>>
    /\ tasks_' = {}
    /\ task_infos_' = [i \in 1..MaxTasks |-> 0]
    /\ workers_' = 1..n
    /\ pc' = [w \in 1..MaxWorkers |-> IF w <= n THEN "check" ELSE "none"]
    /\ stats_' = [thread_count |-> n, completed_tasks |-> 0, failed_tasks |-> 0,
                  average_task_duration_ms |-> [num |-> 0, den |-> 1]]
    /\ cur' = [w \in 1..MaxWorkers |-> 0]
    /\ stop_' = FALSE
    /\ force_stop_' = FALSE
    /\ active_threads_' = 0
    /\ UNCHANGED <<ctl, notifies, wpc, order, cancelledOk, pending_count>>

\* SDK::Impl::initialize(config), one critical section of mutex_.
SdkInitialize(n, outcome) ==
    /\ sdk_pc = "idle"
    /\ ctl = "idle"
    /\ IF AlreadyInitialized
       THEN /\ ret' = [op |-> "initialize", arg |-> 0, val |-> "ALREADY_INITIALIZED"]
            /\ UNCHANGED <<poolVars, threadVars, flagVars, ctl, notifies, wpc, order,
                           cancelledOk, pending_count, initialized_, thread_pool_>>
       ELSE IF outcome = "logging_fails"
       THEN /\ ret' = [op |-> "initialize", arg |-> 0, val |-> "DEPENDENCY_ERROR"]
            /\ UNCHANGED <<poolVars, threadVars, flagVars, ctl, notifies, wpc, order,
                           cancelledOk, pending_count, initialized_, thread_pool_>>
       ELSE /\ FreshPool(n)
            /\ ret' = [op |-> "initialize", arg |-> 0,
                       val |-> IF outcome = "ok" THEN "SUCCESS" ELSE "DEPENDENCY_ERROR"]
            /\ thread_pool_' = TRUE
            /\ initialized_' = (outcome = "ok")
    /\ UNCHANGED <<sdk_pc, capiVars, elapsed, lockVars, tqVars>>

\* SDK::Impl::shutdown(), entered with mutex_ taken: nothing to do when the
\* facade is not initialized; otherwise thread_pool_->shutdown() begins by
\* setting stop_.
SdkShutdownCall ==
    /\ sdk_pc = "idle"
    /\ ctl = "idle"
    /\ IF ~initialized_
       THEN /\ ret' = [op |-> "sdk_shutdown", arg |-> 0, val |-> "void"]
            /\ UNCHANGED <<stop_, ctl, sdk_pc>>
       ELSE /\ stop_' = TRUE
            /\ ctl' = "sd_notify"
            /\ sdk_pc' = "shutdown"
            /\ UNCHANGED ret
    /\ UNCHANGED <<poolVars, threadVars, force_stop_, notifies, wpc, order, cancelledOk,
                   pending_count, initialized_, thread_pool_, capiVars, elapsed, lockVars, tqVars>>

\* thread_pool_->shutdown() has returned: thread_pool_.reset() and
\* initialized_.store(false), still under mutex_.
SdkShutdownFinish ==
    /\ sdk_pc = "shutdown"
    /\ ctl = "idle"
    /\ thread_pool_' = FALSE
    /\ initialized_' = FALSE
    /\ sdk_pc' = "idle"
    /\ ret' = [op |-> "sdk_shutdown", arg |-> 0, val |-> "void"]
    /\ UNCHANGED <<poolVars, threadVars, flagVars, ctl, notifies, wpc, order, cancelledOk,
                   pending_count, capiVars, elapsed, lockVars, tqVars>>

\* ---------------------------------------------------------------- C API
\* sdk_thread_pool_submit_task, lines 359-369: the facade is initialized and
\* has a pool (getThreadPool takes mutex_), and the id is drawn from
\* g_next_task_id.  Nothing is entered into g_task_infos.
CSubmitTakeId ==
    /\ cpc.at = "idle"
    /\ sdk_pc = "idle"
    /\ initialized_ /\ thread_pool_
    /\ g_next_task_id <= MaxTasks
    /\ cpc' = [cpc EXCEPT !.at = "submit", !.task_id = g_next_task_id]
    /\ g_next_task_id' = g_next_task_id + 1
    /\ UNCHANGED <<poolVars, threadVars, flagVars, ctl, notifies, wpc, ret, order,
                   cancelledOk, pending_count, sdkVars, g_task_infos, elapsed, lockVars, tqVars>>

\* Lines 377-387: thread_pool->submit(std::to_string(task_id), priority,
\* wrapper); the id is returned when submit returned its future, 0 when
\* submit threw.
CSubmitPush ==
    /\ cpc.at = "submit"
    /\ IF SubmitRefused
       THEN /\ ret' = [op |-> "sdk_submit_task", arg |-> cpc.task_id, val |-> 0]
            /\ UNCHANGED <<poolVars, threadVars, flagVars, ctl, notifies, wpc, order,
                           cancelledOk, pending_count>>
       ELSE SubmitTask(cpc.task_id, NORMAL, "ok", LastInstant + 1)
    /\ cpc' = [cpc EXCEPT !.at = "idle", !.task_id = 0]
    /\ UNCHANGED <<sdkVars, g_task_infos, g_next_task_id, elapsed, lockVars, tqVars>>

\* convertStatus: the C status of the same name.
ConvertStatus(status) == status

\* The look-up of sdk_thread_pool_get_task_status: the status of the record
\* g_task_infos holds for the id, PENDING when it holds none.
GTaskStatus(id) ==
    IF g_task_infos[id] # 0 THEN ConvertStatus(infos[g_task_infos[id]].status)
    ELSE "PENDING"

\* sdk_thread_pool_get_task_status(task_id).
CGetTaskStatus(id) ==
    /\ cpc.at = "idle"
    /\ ret' = [op |-> "sdk_get_task_status", arg |-> id, val |-> GTaskStatus(id)]
    /\ UNCHANGED <<poolVars, threadVars, flagVars, ctl, notifies, wpc, order, cancelledOk,
                   pending_count, outerVars>>

\* sdk_thread_pool_wait_task(task_id, timeout_ms) begins its polling loop.
CWaitTaskEnter(id, timeout_ms) ==
    /\ cpc.at = "idle"
    /\ cpc' = [at |-> "wait_task", task_id |-> id, timeout_ms |-> timeout_ms]
    /\ UNCHANGED <<poolVars, threadVars, flagVars, ctl, notifies, wpc, ret, order,
                   cancelledOk, pending_count, sdkVars, g_task_infos, g_next_task_id,
                   elapsed, lockVars, tqVars>>

\* The status test of the loop (lines 506-511).
WaitTaskDone(id) == GTaskStatus(id) \in {"COMPLETED", "FAILED", "CANCELLED"}

\* An iteration of the loop that returns: true when the status found is
\* terminal; false when it is not and timeout_ms > 0 has elapsed (lines
\* 513-518).  Any other iteration sleeps 10 ms and polls again, the state
\* unchanged.
CWaitTaskReturn ==
    /\ cpc.at = "wait_task"
    /\ IF WaitTaskDone(cpc.task_id)
       THEN ret' = [op |-> "sdk_wait_task", arg |-> cpc.task_id, val |-> TRUE]
       ELSE /\ cpc.timeout_ms > 0
            /\ ret' = [op |-> "sdk_wait_task", arg |-> cpc.task_id, val |-> FALSE]
    /\ cpc' = [at |-> "idle", task_id |-> 0, timeout_ms |-> 0]
    /\ UNCHANGED <<poolVars, threadVars, flagVars, ctl, notifies, wpc, order, cancelledOk,
                   pending_count, sdkVars, g_task_infos, g_next_task_id, elapsed, lockVars, tqVars>>

\* ------------------------------------------------------------------- Next
\* generateTaskId(): "task_" and a random 64-bit number, an id no earlier
\* submission has.
GeneratedId == Len(infos) + 1

\* submit(f): priority NORMAL, a generated id.
SubmitDefault ==
    /\ Len(infos) < MaxTasks
    /\ \E work \in {"ok"} : SubmitTask(GeneratedId, NORMAL, work, LastInstant + 1)
    /\ UNCHANGED outerVars

\* submit(f) with a closure that returns or throws.
SubmitWork ==
    /\ Len(infos) < MaxTasks
    /\ \E work \in WorkKinds : SubmitTask(GeneratedId, NORMAL, work, LastInstant + 1)
    /\ UNCHANGED outerVars

\* submit(priority, f), the clock having advanced or not since the last submit.
SubmitPriority ==
    /\ Len(infos) < MaxTasks
    /\ \E prio \in Priorities, t \in Now : SubmitTask(GeneratedId, prio, "ok", t)
    /\ UNCHANGED outerVars

SubmitRefusal == \E id \in {GeneratedId} : SubmitThrows(id)

\* submit(task_id, priority, f) with an id the caller chooses: submit looks
\* for no earlier use of the id.
SubmitWithId ==
    /\ Len(infos) < MaxTasks
    /\ \E id \in Ids : SubmitTask(id, NORMAL, "ok", LastInstant + 1)
    /\ UNCHANGED outerVars

Dequeue == \E w \in Workers : WorkerCheck(w)
Start == \E w \in Workers : WorkerStart(w)
Call == \E w \in Workers : WorkerCall(w)
Post == \E w \in Workers : WorkerPost(w)
Stats == \E w \in Workers : WorkerStats(w)
Dec == \E w \in Workers : WorkerDec(w)
Worker == Dequeue \/ Start \/ Call \/ Post \/ Stats \/ Dec

Cancel == \E id \in Ids : CancelTask(id)
Resizing == \E n \in 0..MaxWorkers : Resize(n)
WaitForAllEnter == \E x \in Waiters : WaitForAllCall(x)
WaitForAllRecheck == \E x \in Waiters : WaitForAllWake(x)
WaitForEnter == \E x \in Waiters : WaitForCall(x)
WaitForRecheck == \E x \in Waiters : WaitForWake(x)
WaitForElapsed == \E x \in Waiters : WaitForTimeout(x)

\* The pool with its producers, its cancelling callers and its owner, which
\* resizes it and shuts it down gracefully or by force.
Next == \/ SubmitDefault \/ SubmitRefusal \/ NotifyOne
        \/ Dequeue \/ Start \/ Call \/ Post \/ Stats \/ Dec
        \/ Cancel
        \/ ShutdownFlag \/ ForceShutdownFlag \/ ShutdownNotify \/ ShutdownJoin
        \/ Resizing

Spec == Init /\ [][Next]_vars

\* Producers, workers and cancelling callers on a pool that is not shut down.
NextCancel == \/ SubmitDefault \/ NotifyOne
              \/ Dequeue \/ Start \/ Call \/ Post \/ Stats \/ Dec
              \/ Cancel \/ CancelPendingTasks

SpecCancel == Init /\ [][NextCancel]_vars

\* Producers and workers, and a caller of the C function that cancels all
\* pending tasks.
NextCancelAll == \/ SubmitDefault \/ NotifyOne
                 \/ Dequeue \/ Start \/ Call \/ Post \/ Stats \/ Dec
                 \/ CancelAllCount \/ CancelAllCancel

SpecCancelAll == Init /\ [][NextCancelAll]_vars

\* Closures that throw, on a pool that its owner may shut down gracefully.
NextFail == \/ SubmitWork \/ SubmitRefusal \/ NotifyOne
            \/ Dequeue \/ Start \/ Call \/ Post \/ Stats \/ Dec
            \/ ShutdownFlag \/ ShutdownNotify \/ ShutdownJoin

SpecFail == Init /\ [][NextFail]_vars

\* Tasks of every priority, submitted at equal or at increasing instants.
NextPrio == \/ SubmitPriority \/ NotifyOne
            \/ Dequeue \/ Start \/ Call \/ Post \/ Stats \/ Dec

SpecPrio == Init /\ [][NextPrio]_vars

\* Producers that choose their task ids, workers and cancelling callers.
NextIds == \/ SubmitWithId \/ NotifyOne
           \/ Dequeue \/ Start \/ Call \/ Post \/ Stats \/ Dec
           \/ Cancel

SpecIds == Init /\ [][NextIds]_vars

\* Producers and workers, and a thread that reads the statistics.
NextStats == \/ SubmitDefault \/ NotifyOne
             \/ Dequeue \/ Start \/ Call \/ Post \/ Stats \/ Dec
             \/ GetStats

SpecStats == Init /\ [][NextStats]_vars

\* What system_clock can measure between the closure's start_time and the
\* worker's end_time: nothing (the clock has not ticked), less than a
\* millisecond, one millisecond, two.
ElapsedTicks == {0, 1, TicksPerMs, 2 * TicksPerMs}

\* The next task takes another time than the last.
ClockElapses ==
    /\ \E e \in ElapsedTicks \ {elapsed} : elapsed' = e
    /\ UNCHANGED <<poolVars, threadVars, flagVars, ctl, notifies, wpc, ret, order,
                   cancelledOk, pending_count, sdkVars, capiVars, lockVars, tqVars>>

\* Tasks of any measured duration and workers.
NextAvg == \/ SubmitDefault \/ NotifyOne \/ ClockElapses
           \/ Dequeue \/ Start \/ Call \/ Post \/ Stats \/ Dec

SpecAvg == Init /\ [][NextAvg]_vars

\* Producers, workers and readers of the task records.
NextInfos == \/ SubmitDefault \/ NotifyOne
             \/ Dequeue \/ Start \/ Call \/ Post \/ Stats \/ Dec
             \/ GetTaskInfos

SpecInfos == Init /\ [][NextInfos]_vars

\* Two threads calling the pool's methods and a worker thread, followed
\* through their lock and unlock operations.
CallerEnters == \E t \in LockCallers, op \in CallerOps : EnterOp(t, op)
WorkerIterates == EnterOp("worker", "workerThread")
MutexStep == \E t \in LockThreads : LockStep(t)

NextLocks == CallerEnters \/ WorkerIterates \/ MutexStep

SpecLocks == Init /\ [][NextLocks]_vars

\* A TaskQueue with its producers, two consumers, a thread that stops it
\* and one that removes tasks by id.  A consumer that has been woken, or has
\* called waitAndPop, is scheduled.
QueuePushes ==
    /\ Len(infos) < MaxTasks
    /\ \E id \in Ids, prio \in {NORMAL, HIGH}, t \in Now : QueuePush(id, prio, t)
QueueConsumes == \E c \in QueueConsumers : WaitAndPop(c)
QueueStops == ~queue_stop_ /\ QueueStop
QueueRemoves == \E id \in Ids : RemoveTasksWithId(id)

NextQueue == QueuePushes \/ QueueConsumes \/ QueueStops \/ QueueRemoves

FairQueue == \A c \in QueueConsumers : WF_vars(qpc[c] = "woken" /\ WaitAndPop(c))

SpecQueue == Init /\ [][NextQueue]_vars /\ FairQueue

\* The SDK facade from program start: no pool until initialize makes one.
\* Its owner initializes it and shuts it down, C API callers submit tasks.
InitSdk == Constructed(0)

SdkInit ==
    \E size \in 0..MaxWorkers, hc \in HardwareConcurrency, ht \in BOOLEAN,
       outcome \in InitOutcomes :
        SdkInitialize(InitializeThreadPoolCount(size, hc, ht), outcome)

NextSdk == \/ SdkInit \/ SdkShutdownCall \/ ShutdownNotify \/ ShutdownJoin
           \/ SdkShutdownFinish
           \/ CSubmitTakeId \/ CSubmitPush \/ NotifyOne
           \/ Dequeue \/ Start \/ Call \/ Post \/ Stats \/ Dec

SpecSdk == InitSdk /\ [][NextSdk]_vars

\* An initialized facade whose pool has at least one worker, and a C API
\* caller that submits tasks, asks for their status and waits for them.
\* Every runnable thread is scheduled.
InitCapi ==
    /\ \E n \in InitThreadCounts : Pool(n)
    /\ initialized_ = TRUE
    /\ thread_pool_ = TRUE
    /\ sdk_pc = "idle"
    /\ CapiStart
    /\ elapsed = TicksPerMs
    /\ LocksFree
    /\ TaskQueueStart

CGetStatus == \E id \in Ids : CGetTaskStatus(id)
CWaitTask == \E id \in Ids, timeout_ms \in {0, 1} : CWaitTaskEnter(id, timeout_ms)

NextCapi == \/ CSubmitTakeId \/ CSubmitPush \/ NotifyOne
            \/ Dequeue \/ Start \/ Call \/ Post \/ Stats \/ Dec
            \/ CGetStatus \/ CWaitTask \/ CWaitTaskReturn

FairCapi == /\ WF_vars(NotifyOne)
            /\ WF_vars(CSubmitPush)
            /\ \A w \in 1..MaxWorkers : WF_vars(WorkerStep(w))
            /\ WF_vars(CWaitTaskReturn)

SpecCapi == InitCapi /\ [][NextCapi]_vars /\ FairCapi

\* A pool of any constructed size with its producers and workers, which its
\* owner may resize.
NextCtor == \/ SubmitDefault \/ NotifyOne
            \/ Dequeue \/ Start \/ Call \/ Post \/ Stats \/ Dec
            \/ Resizing

SpecCtor == InitCtor /\ [][NextCtor]_vars

\* A pool of one worker that its owner resizes while producers submit.  Every
\* runnable worker is scheduled and every submit reaches its notify_one.
InitResize == Constructed(1)

FairResize == /\ WF_vars(NotifyOne)
              /\ \A w \in 1..MaxWorkers : WF_vars(WorkerStep(w))

SpecResize == InitResize /\ [][NextCtor]_vars /\ FairResize

\* Producers, workers and callers of waitForAll / waitFor.  The operating
\* system schedules every runnable thread: a worker that is not blocked on
\* condition_ takes its next step, a submit that has pushed goes on to its
\* notify_one, a woken waiter tests its predicate, a timeout elapses.  A
\* wake-up without a notification may happen and is never owed.
NextLive == \/ SubmitDefault \/ NotifyOne \/ SpuriousWake
            \/ Dequeue \/ Start \/ Call \/ Post \/ Stats \/ Dec
            \/ WaitForAllEnter \/ WaitForAllRecheck
            \/ WaitForEnter \/ WaitForRecheck \/ WaitForElapsed

FairLive == /\ WF_vars(NotifyOne)
            /\ \A w \in 1..MaxWorkers : WF_vars(WorkerStep(w))
            /\ WF_vars(WaitForAllRecheck)
            /\ WF_vars(WaitForRecheck)
            /\ WF_vars(WaitForElapsed)

SpecLive == Init /\ [][NextLive]_vars /\ FairLive

\* Producers of closures that return or throw, workers, cancelling callers
\* and callers of waitForAll / waitFor.
NextWait == \/ SubmitWork \/ NotifyOne \/ SpuriousWake
            \/ Dequeue \/ Start \/ Call \/ Post \/ Stats \/ Dec
            \/ Cancel \/ CancelPendingTasks
            \/ WaitForAllEnter \/ WaitForAllRecheck
            \/ WaitForEnter \/ WaitForRecheck \/ WaitForElapsed

SpecWait == Init /\ [][NextWait]_vars

\* TEST_F(ThreadPoolTest, TaskPriority): a pool of 4 workers; one thread
\* submits a LOW, a HIGH and a CRITICAL task, each submit ending with its
\* notify_one before the next begins.
TestThreads == 4
TestPriorities == <<LOW, HIGH, CRITICAL>>

InitTest ==
    /\ infos = <<>>
    /\ tasks_ = {}
    /\ task_infos_ = [i \in 1..Len(TestPriorities) |-> 0]
    /\ workers_ = 1..TestThreads
    /\ pc = [w \in 1..TestThreads |-> "check"]
    /\ stats_ = [thread_count |-> TestThreads, completed_tasks |-> 0, failed_tasks |-> 0,
                 average_task_duration_ms |-> [num |-> 0, den |-> 1]]
    /\ cur = [w \in 1..TestThreads |-> 0]
    /\ stop_ = FALSE
    /\ force_stop_ = FALSE
    /\ active_threads_ = 0
    /\ ctl = "idle"
    /\ notifies = 0
    /\ wpc = [x \in Waiters |-> "idle"]
    /\ ret = [op |-> "none", arg |-> 0, val |-> "none"]
    /\ order = <<>>
    /\ cancelledOk = {}
    /\ pending_count = 0
    /\ Standalone

SubmitTest ==
    /\ Len(infos) < Len(TestPriorities)
    /\ notifies = 0
    /\ \E t \in Now : SubmitTask(GeneratedId, TestPriorities[Len(infos) + 1], "ok", t)
    /\ UNCHANGED outerVars

NextTest == \/ SubmitTest \/ NotifyOne
            \/ Dequeue \/ Start \/ Call \/ Post \/ Stats \/ Dec

SpecTest == InitTest /\ [][NextTest]_vars

\* ----------------------------------------------------------------- claims
Terminal(r) == infos[r].status \in {"COMPLETED", "FAILED"}
Invoked(r) == \E i \in 1..Len(order) : order[i] = r
NoWorkerAlive == \A w \in Workers : pc[w] \in {"none", "exited"}

\* C1: once shutdown() or forceShutdown() has been requested (either flag is
\* set), no later step adds a record, a queue entry or a registry entry:
\* every later submit is refused.
C1_NoSubmitAfterShutdownRequest ==
    [][(stop_ \/ force_stop_) =>
          /\ Len(infos') = Len(infos)
          /\ tasks_' \subseteq tasks_
          /\ task_infos_' = task_infos_]_vars

\* C2: when shutdown() has returned, no worker thread is alive and every
\* record that is not CANCELLED is COMPLETED or FAILED.
C2_ShutdownDrains ==
    ret.op = "shutdown" =>
        /\ NoWorkerAlive
        /\ \A r \in Recs : infos[r].status # "CANCELLED" => Terminal(r)

\* C3: when forceShutdown() has returned, no worker thread is alive, the
\* queue is empty and no record is left PENDING.
C3_ForceShutdownCancelsPending ==
    ret.op = "forceShutdown" =>
        /\ NoWorkerAlive
        /\ tasks_ = {}
        /\ \A r \in Recs : infos[r].status # "PENDING"

\* C4: a record for which cancelTask returned true stays CANCELLED and its
\* closure is never invoked.
C4_CancelledNeverRuns ==
    \A r \in cancelledOk : infos[r].status = "CANCELLED" /\ ~Invoked(r)

\* C5: a cancelTask(id) step on an id that is not registered, or whose record
\* is RUNNING, COMPLETED, FAILED or CANCELLED, returns false and changes no
\* record, nor the queue, nor the registry.
NotPending(id) ==
    \/ task_infos_[id] = 0
    \/ infos[task_infos_[id]].status \in {"RUNNING", "COMPLETED", "FAILED", "CANCELLED"}

C5_CancelNonPendingIsNoop ==
    [][\A id \in Ids : (CancelTask(id) /\ NotPending(id)) =>
          /\ ret'.val = FALSE
          /\ UNCHANGED <<infos, tasks_, task_infos_>>]_vars

\* A cancelTask call has returned false for a record that is RUNNING.
C5_Witness ==
    /\ ret.op = "cancelTask"
    /\ ret.val = FALSE
    /\ task_infos_[ret.arg] # 0
    /\ infos[task_infos_[ret.arg]].status = "RUNNING"

\* The worker that ran r has finished with it (past fetch_sub).
Released(r) == Invoked(r) /\ \A w \in Workers : cur[w] # r
Throwing(r) == infos[r].work # "ok"
ExceptionText(work) == IF work = "throw_std" THEN "what" ELSE "Unknown exception"

\* C6: a task whose closure threw ends FAILED, with the exception text (or
\* the generic marker) in error_message, and is counted in failed_tasks and
\* not in completed_tasks.
C6_ThrowingTaskEndsFailed ==
    /\ \A r \in Recs : (Released(r) /\ Throwing(r)) =>
          /\ infos[r].status = "FAILED"
          /\ infos[r].error_message = ExceptionText(infos[r].work)
    /\ (\A r \in Recs : Released(r)) =>
          /\ stats_.failed_tasks = Cardinality({r \in Recs : Throwing(r)})
          /\ stats_.completed_tasks = Cardinality({r \in Recs : ~Throwing(r)})

\* C7: a closure's exception reaches nobody but the task's future, and the
\* worker stays in its loop: the future of an invoked throwing task holds the
\* exception; a worker leaves the loop only from the test at the top of the
\* loop and only when a shutdown flag is set; from the call it moves on to the
\* status update, the statistics, the decrement and back to the top; no task
\* step changes the worker set or the flags.
NextPc(p) == IF p = "start" THEN "call"
             ELSE IF p = "call" THEN "post"
             ELSE IF p = "post" THEN "stats"
             ELSE IF p = "stats" THEN "dec"
             ELSE "check"

C7_FailureStaysInTask ==
    /\ [](\A r \in Recs : (Invoked(r) /\ Throwing(r)) => infos[r].future = "exception")
    /\ [](\A w \in Workers : pc[w] = "exited" => (stop_ \/ force_stop_))
    /\ [][\A w \in Workers :
             (pc[w] \in {"start", "call", "post", "stats", "dec"} /\ pc'[w] # pc[w]) =>
                 /\ pc'[w] = NextPc(pc[w])
                 /\ workers_' = workers_
                 /\ stop_' = stop_ /\ force_stop_' = force_stop_]_vars

\* One worker ran a throwing task and then ran another task to completion.
C7_Witness ==
    /\ stats_.thread_count = 1
    /\ Len(order) = 2
    /\ Throwing(order[1])
    /\ infos[order[1]].future = "exception"
    /\ infos[order[2]].status = "COMPLETED"
    /\ pc[1] = "waiting"

\* C8: on a pool with at least one worker, every accepted task is eventually
\* taken from the queue and brought to COMPLETED or FAILED.
C8_EveryAcceptedTaskFinishes ==
    \A r \in 1..MaxTasks :
        (r \in Recs /\ workers_ # {}) ~> (r \in Recs /\ r \notin tasks_ /\ Terminal(r))

\* C9: the task a worker dequeues has the highest priority in the queue and,
\* among the queued tasks of that priority, the earliest submit_time; a
\* worker keeps the task it holds until it has finished with it; with one
\* worker, no task is invoked ahead of a task that was submitted earlier and
\* ranks strictly before it.
Before(a, b) ==
    \/ infos[a].priority > infos[b].priority
    \/ infos[a].priority = infos[b].priority /\ infos[a].submit_time < infos[b].submit_time

C9_DequeueTakesBest ==
    /\ [][\A w \in Workers : (pc[w] = "check" /\ pc'[w] = "start") =>
             /\ cur'[w] \in tasks_
             /\ \A o \in tasks_ : ~Before(o, cur'[w])]_vars
    /\ [][\A w \in Workers : (cur[w] # 0 /\ pc[w] # "dec") => cur'[w] = cur[w]]_vars
    /\ [](stats_.thread_count = 1 =>
             \A i, j \in 1..Len(order) :
                 (i < j /\ order[j] < order[i]) => ~Before(order[j], order[i]))

\* One worker invoked the second submission first, because it had the
\* higher priority while both were queued.
C9_Witness ==
    /\ stats_.thread_count = 1
    /\ Len(order) = 2
    /\ order[1] = 2
    /\ infos[2].priority > infos[1].priority

\* C10: of the LOW, HIGH and CRITICAL tasks of the test, a task of higher
\* priority is always invoked before one of lower priority.
C10_StartsFollowPriority ==
    \A i, j \in 1..Len(order) :
        i < j => infos[order[i]].priority > infos[order[j]].priority

\* C11: a waitForAll() caller does not stay blocked once the pool is idle for
\* good: if from some point on the queue is empty and no worker is active,
\* then from some point on no caller is blocked in waitForAll.
C11_WaitForAllReturns ==
    \A x \in Waiters :
        <>[](tasks_ = {} /\ active_threads_ = 0) =>
            <>[](wpc[x] \notin {"wfa_waiting", "wfa_woken"})

\* C12: a step in which waitForAll() returns, or waitFor returns true, is
\* taken in a state where the queue is empty and no worker is active; every
\* record is then COMPLETED, FAILED or CANCELLED, and the counters equal the
\* numbers of COMPLETED and of FAILED records.
WaitReturnsIdle(x) ==
    \/ (WaitForAllCall(x) \/ WaitForAllWake(x)) /\ wpc'[x] = "idle"
    \/ /\ WaitForCall(x) \/ WaitForWake(x) \/ WaitForTimeout(x)
       /\ wpc'[x] = "idle"
       /\ ret'.val = TRUE

Settled ==
    /\ tasks_ = {}
    /\ active_threads_ = 0
    /\ \A r \in Recs : infos[r].status \in {"COMPLETED", "FAILED", "CANCELLED"}
    /\ stats_.completed_tasks = Cardinality({r \in Recs : infos[r].status = "COMPLETED"})
    /\ stats_.failed_tasks = Cardinality({r \in Recs : infos[r].status = "FAILED"})

C12_WaitReturnsOnlyWhenIdle ==
    [][\A x \in Waiters : WaitReturnsIdle(x) => Settled]_vars

\* waitForAll has returned after every submitted task was run and counted.
C12_Witness ==
    /\ ret.op = "waitForAll"
    /\ Len(infos) = MaxTasks
    /\ stats_.completed_tasks = MaxTasks
    /\ Settled

\* C13: a waitFor step changes no record, nor the queue, the registry, the
\* worker set, a worker's position or task, a counter or a flag; when it
\* returns, it returns true exactly if the queue is empty and no worker is
\* active at that instant.
C13_WaitForIsPure ==
    [][\A x \in Waiters :
          (WaitForCall(x) \/ WaitForWake(x) \/ WaitForTimeout(x)) =>
              /\ UNCHANGED <<infos, tasks_, task_infos_, workers_, pc, cur,
                             active_threads_, stats_, stop_, force_stop_>>
              /\ wpc'[x] = "idle" =>
                    ret'.val = (tasks_ = {} /\ active_threads_ = 0)]_vars

\* waitFor has returned false while a worker was running a task, and the
\* task is still RUNNING.
C13_Witness ==
    /\ ret.op = "waitFor"
    /\ ret.val = FALSE
    /\ active_threads_ > 0
    /\ \E r \in Recs : infos[r].status = "RUNNING"

\* waitFor has returned true at the deadline with every task run.
C13_WitnessTrue ==
    /\ ret.op = "waitFor"
    /\ ret.val = TRUE
    /\ Len(infos) = MaxTasks
    /\ Settled

\* C14: forceShutdown() does not wait for executing tasks: when it has set
\* the flag and notified, and every worker is inside a task's closure, it can
\* return at once, with those tasks still RUNNING.
EveryWorkerRunning == workers_ # {} /\ \A w \in workers_ : pc[w] = "call"

C14_ForceShutdownDoesNotWait ==
    (ctl = "fs_join" /\ EveryWorkerRunning) => ENABLED ShutdownJoin

\* C15: a submit with an id that is already in the registry adds nothing:
\* the registry entry of the id stays, and no new record carries the id; no
\* two records that are PENDING or RUNNING ever share an id.
Live(r) == infos[r].status \in {"PENDING", "RUNNING"}

C15_DuplicateIdRefused ==
    /\ [][\A id \in Ids : task_infos_[id] # 0 =>
             /\ task_infos_'[id] = task_infos_[id]
             /\ \A r \in (Len(infos) + 1)..Len(infos') : infos'[r].id # id]_vars
    /\ [](\A a, b \in Recs : (a # b /\ Live(a) /\ Live(b)) => infos[a].id # infos[b].id)

\* C16: no pool exists with zero workers: a pool that is not shut down has
\* at least one worker thread, and its thread_count is positive.
C16_NoZeroWorkerPool ==
    (~stop_ /\ ~force_stop_) => (workers_ # {} /\ stats_.thread_count > 0)

\* C17: a resize(n) step with n above the current worker count leaves
\* size() and thread_count equal to n; the workers it adds stand at the top of
\* the worker loop, and the earlier workers are not disturbed.
C17_ResizeGrows ==
    [][\A n \in 0..MaxWorkers : (Resize(n) /\ n > Cardinality(workers_)) =>
          /\ Cardinality(workers_') = n
          /\ stats_'.thread_count = n
          /\ workers_ \subseteq workers_'
          /\ \A w \in workers_' \ workers_ : pc'[w] = "check"
          /\ \A w \in workers_ : pc'[w] = pc[w] /\ cur'[w] = cur[w]]_vars

\* The pool built with one worker was grown, and a worker added by the
\* resize runs a task while the first worker runs another.
C17_Witness ==
    /\ stats_.thread_count = MaxWorkers
    /\ Cardinality(workers_) = MaxWorkers
    /\ cur[1] # 0
    /\ \E w \in workers_ : w > 1 /\ pc[w] = "call"

\* C18: after a resize(n) that asked for fewer workers than there are, the
\* worker count eventually equals n, unless a later resize asks for another
\* size.
C18_ShrinkTakesEffect ==
    \A n \in 1..MaxWorkers :
        (ret.op = "resize" /\ ret.arg = n /\ Cardinality(workers_) > n)
            ~> (Cardinality(workers_) = n \/ (ret.op = "resize" /\ ret.arg # n))

\* C19: when the cancel-all-pending call returns, the queue is empty, every
\* task it drained is CANCELLED, and the count it returns is the number of
\* records this call turned CANCELLED.
C19_CancelAllCountsItsCancels ==
    [][(ctl = "cap_cancel" /\ ctl' = "idle") =>
          /\ tasks_' = {}
          /\ \A r \in tasks_ : infos'[r].status = "CANCELLED"
          /\ ret'.val = Cardinality({r \in Recs : /\ infos[r].status # "CANCELLED"
                                                  /\ infos'[r].status = "CANCELLED"})]_vars

\* C20: a task cancelled while PENDING never delivers a result through its
\* future (the future is not ready yet, or holds the broken promise left by
\* the drain), and it is never counted: completed_tasks + failed_tasks never
\* exceeds the number of tasks for which no cancelTask succeeded.
CancelledWhilePending(r) == r \in cancelledOk \/ infos[r].status = "CANCELLED"

C20_CancelledNotCounted ==
    /\ \A r \in Recs : CancelledWhilePending(r) =>
          infos[r].future \in {"none", "broken_promise"}
    /\ stats_.completed_tasks + stats_.failed_tasks <= Cardinality(Recs \ cancelledOk)

\* C21: getStats() counts in completed_tasks every task whose future is
\* ready with a value at the time of the call; when the futures of all the
\* submitted tasks are ready, it returns their number and failed_tasks 0.
ReadyFutures == {r \in Recs : infos[r].future = "value"}

C21_StatsCountReadyFutures ==
    [][GetStats =>
          /\ ret'.val.completed_tasks >= Cardinality(ReadyFutures)
          /\ ReadyFutures = Recs =>
                (ret'.val.completed_tasks = Len(infos) /\ ret'.val.failed_tasks = 0)]_vars

\* C22: a shutdown() called after an earlier shutdown() or forceShutdown()
\* has returned changes nothing callers can see: no record, nor the queue,
\* the registry, the counters or the worker set, and neither what
\* isShuttingDown() answers nor whether submit is refused (the stop_ flag).
C22_SecondShutdownIsNoop ==
    [][(ShutdownFlag /\ (stop_ \/ force_stop_)) =>
          /\ UNCHANGED <<infos, tasks_, task_infos_, stats_, active_threads_, workers_>>
          /\ (stop_' \/ force_stop_') = (stop_ \/ force_stop_)
          /\ stop_' = stop_]_vars

\* C23: every accepted task keeps its own registry entry: the registry maps
\* the id of every record to that record, and getTaskInfos() returns one
\* entry per accepted task.
C23_RegistryKeepsEveryTask ==
    /\ \A r \in Recs : task_infos_[infos[r].id] = r
    /\ GetTaskInfosResult = Recs

\* C24: initialize() on an initialized facade returns ALREADY_INITIALIZED
\* and touches neither the pool nor the facade; when shutdown() has finished
\* on an initialized facade, the pool was shut down gracefully (no worker
\* alive, queue empty, every record COMPLETED or FAILED), the pool is
\* released and the facade is uninitialized; shutdown() on an uninitialized
\* facade changes nothing; initialize() on an uninitialized facade whose
\* dependencies succeed returns SUCCESS with a pool that has no record, an
\* empty queue and no shutdown flag set.
C24_FacadeLifecycle ==
    /\ [][(SdkInit /\ initialized_) =>
             /\ ret'.val = "ALREADY_INITIALIZED"
             /\ UNCHANGED <<poolVars, threadVars, flagVars, initialized_, thread_pool_>>]_vars
    /\ [][SdkShutdownFinish =>
             /\ NoWorkerAlive /\ workers_ = {}
             /\ tasks_ = {}
             /\ \A r \in Recs : Terminal(r)
             /\ ~thread_pool_' /\ ~initialized_']_vars
    /\ [][(SdkShutdownCall /\ ~initialized_) =>
             UNCHANGED <<poolVars, threadVars, flagVars, initialized_, thread_pool_, sdk_pc>>]_vars
    /\ [][(SdkInitialize(1, "ok") /\ ~initialized_) =>
             /\ ret'.val = "SUCCESS"
             /\ initialized_' /\ thread_pool_'
             /\ infos' = <<>> /\ tasks_' = {}
             /\ ~stop_' /\ ~force_stop_'
             /\ \A w \in workers_' : pc'[w] = "check"]_vars

\* C25: sdk_thread_pool_get_task_status(id) returns the status the pool
\* holds for the task submitted under that id; and a
\* sdk_thread_pool_wait_task on a task that has finished eventually returns
\* true, whatever its timeout.
FinishedInPool(id) == task_infos_[id] # 0 /\ Terminal(task_infos_[id])

C25_CStatusFollowsPool ==
    /\ [][\A id \in Ids : (CGetTaskStatus(id) /\ task_infos_[id] # 0) =>
             ret'.val = infos[task_infos_[id]].status]_vars
    /\ \A id \in 1..MaxTasks :
          (cpc.at = "wait_task" /\ cpc.task_id = id /\ FinishedInPool(id))
              ~> (ret = [op |-> "sdk_wait_task", arg |-> id, val |-> TRUE])

\* C26: a record's status changes only along PENDING -> RUNNING,
\* PENDING -> CANCELLED, RUNNING -> COMPLETED and RUNNING -> FAILED.
AllowedTransitions ==
    {<<"PENDING", "RUNNING">>, <<"PENDING", "CANCELLED">>,
     <<"RUNNING", "COMPLETED">>, <<"RUNNING", "FAILED">>}

C26_StatusIsMonotonic ==
    [][\A r \in Recs :
          infos'[r].status # infos[r].status =>
              <<infos[r].status, infos'[r].status>> \in AllowedTransitions]_vars

\* C27: a record is in the queue exactly if its status is PENDING.
C27_QueuedIffPending ==
    \A r \in Recs : (r \in tasks_) <=> (infos[r].status = "PENDING")

\* C28: queued + RUNNING + (COMPLETED or FAILED) = accepted - cancelled
\* while pending, the cancelled being the tasks for which cancelTask
\* returned true and those drained by cancelPendingTasks.
CancelledTasks == cancelledOk \cup {r \in Recs : infos[r].status = "CANCELLED"}

C28_TaskConservation ==
    Cardinality(tasks_)
        + Cardinality({r \in Recs : infos[r].status = "RUNNING"})
        + Cardinality({r \in Recs : Terminal(r)})
    = Len(infos) - Cardinality(CancelledTasks)

\* C29: completed_tasks + failed_tasks + cancelled never exceeds the number
\* of accepted submissions, no cancelled task is also counted as completed
\* or failed (it is never invoked), and the sum equals the number of
\* submissions in every state where a wait-for-all returns.
C29_CountersBoundedBySubmissions ==
    /\ [](stats_.completed_tasks + stats_.failed_tasks + Cardinality(CancelledTasks)
             <= Len(infos))
    /\ [](\A r \in CancelledTasks : ~Invoked(r))
    /\ [][\A x \in Waiters : WaitReturnsIdle(x) =>
             stats_.completed_tasks + stats_.failed_tasks + Cardinality(CancelledTasks)
                 = Len(infos)]_vars

\* C30: average_task_duration_ms times (completed_tasks + failed_tasks) is the
\* sum of the recorded durations, in ms, of the tasks counted so far.
CountedTasks ==
    {r \in Recs : Terminal(r) /\ ~\E w \in Workers : cur[w] = r /\ pc[w] = "stats"}

RECURSIVE SumDurationMs(_)
SumDurationMs(S) ==
    IF S = {} THEN 0
    ELSE LET r == CHOOSE x \in S : TRUE IN DurationMs(infos[r]) + SumDurationMs(S \ {r})

C30_AverageTimesCountIsSum ==
    stats_.average_task_duration_ms.num * (stats_.completed_tasks + stats_.failed_tasks)
        = SumDurationMs(CountedTasks) * stats_.average_task_duration_ms.den

\* C31: whenever a task's future is ready with the closure's value or
\* exception (a wait on it returns), the task's record is already COMPLETED
\* or FAILED.
C31_FutureReadyAfterTerminal ==
    \A r \in Recs : infos[r].future \in {"value", "exception"} => Terminal(r)

\* C32: every record returned by getTaskInfos() is consistent: reported
\* RUNNING it has its start_time, reported COMPLETED or FAILED it has its
\* end_time, reported FAILED it has its error text.
ConsistentView(v) ==
    /\ v.status = "RUNNING" => v.start_time # 0
    /\ v.status \in {"COMPLETED", "FAILED"} => v.end_time # 0
    /\ v.status = "FAILED" => v.error_message # ""

C32_TaskInfosAreConsistent ==
    [][GetTaskInfos => \A r \in DOMAIN ret'.val : ConsistentView(ret'.val[r])]_vars

\* C33: no two workers hold the same record, a held record is no longer
\* queued, and no closure is invoked twice.
Held == {w \in Workers : cur[w] # 0}

C33_TaskTakenOnce ==
    /\ \A w1, w2 \in Held : cur[w1] = cur[w2] => w1 = w2
    /\ \A w \in Held : cur[w] \notin tasks_
    /\ \A i, j \in 1..Len(order) : order[i] = order[j] => i = j

\* Two workers, one of them added by resize, each hold a task of their own
\* and both closures have been invoked.
C33_Witness ==
    /\ Cardinality(Held) = 2
    /\ Len(order) = 2
    /\ ret.op = "resize"

\* C34: lock order: no thread acquires queue_mutex_ while it already holds
\* stats_mutex_.
C34_PoolMutexBeforeStatsMutex ==
    [][\A t \in LockThreads :
          (queue_mutex_' = t /\ queue_mutex_ # t) => stats_mutex_ # t]_vars

\* C35: no mutex is held while user code runs, no thread acquires
\* stats_mutex_ while holding queue_mutex_, no two threads wait for each
\* other's mutex, and while a thread is inside an operation some thread can
\* take its next step.
WaitsFor(t, u) ==
    /\ Inside(t)
    /\ NextLockStep(t).do = "lock"
    /\ Holder(NextLockStep(t).mutex) = u

C35_NoDeadlockOnMutexes ==
    /\ [](\A t \in LockThreads :
            (Inside(t) /\ NextLockStep(t).do = "call") =>
                (queue_mutex_ # t /\ stats_mutex_ # t))
    /\ [][\A t \in LockThreads :
            (stats_mutex_' = t /\ stats_mutex_ # t) => queue_mutex_ # t]_vars
    /\ [](\A t, u \in LockThreads : ~(WaitsFor(t, u) /\ WaitsFor(u, t)))
    /\ []((\E t \in LockThreads : Inside(t)) => \E t \in LockThreads : ENABLED LockStep(t))

\* getStats holds stats_mutex_ and waits for queue_mutex_, which the worker
\* holds for its dequeue.
C35_Witness ==
    /\ lpc["caller1"] = [op |-> "getStats", at |-> 2]
    /\ stats_mutex_ = "caller1"
    /\ queue_mutex_ = "worker"

\* C36: once force_stop_ is set no record goes from PENDING to RUNNING, and
\* a worker that tests its predicate exits without dequeuing.
C36_NoStartAfterForceStop ==
    /\ [][force_stop_ =>
            \A r \in Recs : ~(infos[r].status = "PENDING" /\ infos'[r].status = "RUNNING")]_vars
    /\ [][force_stop_ =>
            \A w \in Workers : (pc[w] = "check" /\ pc'[w] # "check") =>
                (pc'[w] = "exited" /\ tasks_' = tasks_ /\ cur'[w] = cur[w])]_vars

\* C37: active_threads_ is the number of workers that hold a task (dequeued,
\* not yet finished with it); it is never negative, never above the number
\* of worker threads, and 0 when no worker thread is alive.
C37_ActiveThreadsCountsHolders ==
    /\ active_threads_ = Cardinality(Held)
    /\ active_threads_ >= 0
    /\ active_threads_ <= Cardinality(workers_)
    /\ NoWorkerAlive => active_threads_ = 0

\* Every worker of the pool holds a task whose closure has returned.
C37_Witness ==
    /\ active_threads_ = MaxWorkers
    /\ \A w \in Held : pc[w] = "dec"

\* C38: an initialize() that returns DEPENDENCY_ERROR or INTERNAL_ERROR
\* leaves the facade as it was: not initialized, thread_pool_ as before the
\* call, and no worker thread started by the attempt.
C38_FailedInitializeLeavesNothing ==
    [][(SdkInit /\ ret'.val \in {"DEPENDENCY_ERROR", "INTERNAL_ERROR"}) =>
          /\ ~initialized_'
          /\ thread_pool_' = thread_pool_
          /\ workers_' = workers_
          /\ pc' = pc]_vars

\* C39: waitAndPop returns false only when the queue is stopped and empty;
\* what it hands out is a top of the queue, also after stop(); it blocks only
\* while the queue is empty and not stopped; and once the queue is stopped
\* every consumer blocked in waitAndPop returns.
C39_WaitAndPopUntilStoppedAndEmpty ==
    /\ [][\A c \in QueueConsumers :
            (WaitAndPop(c) /\ qpc'[c] = "idle" /\ ret'.val = FALSE) =>
                (queue_stop_ /\ queue_ = {})]_vars
    /\ [][\A c \in QueueConsumers :
            (WaitAndPop(c) /\ qpc'[c] = "idle" /\ ret'.val = TRUE) =>
                /\ Len(popped') = Len(popped) + 1
                /\ popped'[Len(popped')] \in queue_
                /\ \A o \in queue_ : ~Before(o, popped'[Len(popped')])
                /\ queue_' = queue_ \ {popped'[Len(popped')]}]_vars
    /\ [][\A c \in QueueConsumers :
            (WaitAndPop(c) /\ qpc'[c] = "waiting") => (queue_ = {} /\ ~queue_stop_)]_vars
    /\ \A c \in QueueConsumers : (queue_stop_ /\ qpc[c] # "idle") ~> (qpc[c] = "idle")

\* The queue is stopped, one task has been handed out, a consumer has
\* returned false from the stopped, empty queue and the other consumer, which
\* was blocked, has been woken.
C39_Witness ==
    /\ queue_stop_
    /\ ret = [op |-> "waitAndPop", arg |-> "consumer1", val |-> FALSE]
    /\ Len(popped) = 1
    /\ qpc["consumer2"] = "woken"

\* C40: removeTasksWithId(id) takes out of the queue exactly the tasks whose
\* id is id and marks them CANCELLED; every other record is unchanged, the
\* other tasks stay queued, and the tasks that can be popped next are those
\* that rank first among the remaining ones by (priority, submit time).
C40_RemoveTasksWithIdFrame ==
    [][\A id \in Ids : RemoveTasksWithId(id) =>
          LET gone == {r \in queue_ : infos[r].id = id} IN
          /\ queue_' = queue_ \ gone
          /\ \A r \in gone : infos'[r] = [infos[r] EXCEPT !.status = "CANCELLED"]
          /\ \A r \in Recs \ gone : infos'[r] = infos[r]
          /\ Len(infos') = Len(infos)
          /\ QueueTop(queue_)' = {r \in queue_ \ gone : \A o \in queue_ \ gone : ~Before(o, r)}]_vars

\* A removal took one task out of a queue of two: one record is CANCELLED
\* and the other is still queued and PENDING.
C40_Witness ==
    /\ ret.op = "removeTasksWithId"
    /\ \E r \in Recs : infos[r].id = ret.arg /\ infos[r].status = "CANCELLED" /\ r \notin queue_
    /\ \E r \in queue_ : infos[r].id # ret.arg /\ infos[r].status = "PENDING"

====
